---- MODULE Spec2Model ----
(***************************************************************************)
(* Model of src/main.rs: a command-line scaffolder with four subcommands   *)
(* (new, init, build, run).  One behaviour is one process invocation: the  *)
(* parsed options are fixed in Init, every action is one statement group   *)
(* of main(), and the environment (filesystem results, child exit status)  *)
(* is chosen nondeterministically.                                         *)
(*                                                                         *)
(* Text is modelled as a sequence of one-character strings so that         *)
(* format!(), to_ascii_lowercase(), join() and path splitting are computed *)
(* character by character.  File contents are sequences of lines.          *)
(***************************************************************************)
EXTENDS Integers, Sequences, FiniteSets, TLC

VARIABLES
    opt,        \* the parsed Cli (args.command and its fields), fixed per run
    cwd,        \* the process's current working directory (text)
    fs,         \* filesystem below cwd as this process makes it: path (sequence
                \* of segments) -> entry; what cmake and git write is not tracked
    fs0,        \* the filesystem as it was when the process started
    pc,         \* position of main()
    extension,  \* the FileExtensions value bound at line 127 ("none" before)
    children,   \* external commands spawned so far: [line, kind, code]
    printed,    \* what println! wrote, in order
    outcome     \* "running", "returned" (main returned: exit 0), "panicked"

vars == <<opt, cwd, fs, fs0, pc, extension, children, printed, outcome>>

\* ------------------------------------------------------------------ bounds

\* most values of --args given to `run`
MaxArgs == 2

\* ------------------------------------------------------------------- text

Upper == (* ABCDEFGHIJKLMNOPQRSTUVWXYZ *) <<"A","B","C","D","E","F","G","H","I","J","K","L","M","N","O","P","Q","R","S","T","U","V","W","X","Y","Z">>

Lower == (* abcdefghijklmnopqrstuvwxyz *) <<"a","b","c","d","e","f","g","h","i","j","k","l","m","n","o","p","q","r","s","t","u","v","w","x","y","z">>

\* u8::to_ascii_lowercase
ascii_lower(c) ==
    IF \E i \in 1..Len(Upper) : Upper[i] = c
    THEN Lower[CHOOSE i \in 1..Len(Upper) : Upper[i] = c]
    ELSE c

\* str::to_ascii_lowercase
to_ascii_lowercase(s) == [i \in 1..Len(s) |-> ascii_lower(s[i])]

RECURSIVE SplitOn(_, _, _)
\* s split at every occurrence of the character sep; cur is the piece being read
SplitOn(s, sep, cur) ==
    IF s = <<>> THEN <<cur>>
    ELSE IF Head(s) = sep THEN <<cur>> \o SplitOn(Tail(s), sep, <<>>)
    ELSE SplitOn(Tail(s), sep, Append(cur, Head(s)))

RECURSIVE Join(_, _)
\* [String]::join(sep)
Join(parts, sep) ==
    IF parts = <<>> THEN <<>>
    ELSE IF Len(parts) = 1 THEN parts[1]
    ELSE parts[1] \o sep \o Join(Tail(parts), sep)

\* ------------------------------------------------------------- filesystem

Dir == [kind |-> "dir", content |-> <<>>]

File(content) == [kind |-> "file", content |-> content]

\* the segments the operating system resolves a relative path to: split at
\* "/", empty segments and "." dropped
Components(path) ==
    SelectSeq(SplitOn(path, "/", <<>>), LAMBDA c : c # <<>> /\ c # <<".">>)

Prefixes(p) == {SubSeq(p, 1, k) : k \in 1..Len(p)}

Parent(p) == SubSeq(p, 1, Len(p) - 1)

\* Path::exists
PathExists(f, path) == Components(path) \in DOMAIN f

\* whether std::fs::create_dir_all(path) can succeed on f: no segment of the
\* path is an existing file
CanCreateDirAll(f, path) ==
    \A q \in Prefixes(Components(path)) : q \in DOMAIN f => f[q].kind = "dir"

\* f after a successful std::fs::create_dir_all(path): every missing
\* directory along the path is created, existing ones are kept
create_dir_all(f, path) ==
    LET new == Prefixes(Components(path)) \ DOMAIN f
    IN  [q \in DOMAIN f \cup new |-> IF q \in new THEN Dir ELSE f[q]]

\* whether std::fs::write(path, _) can succeed on f: the parent is an
\* existing directory (or cwd) and the target is not a directory
CanWrite(f, path) ==
    LET p == Components(path)
    IN  /\ p # <<>>
        /\ Len(p) > 1 => (Parent(p) \in DOMAIN f /\ f[Parent(p)].kind = "dir")
        /\ p \in DOMAIN f => f[p].kind = "file"

\* f after a successful std::fs::write(path, content)
write(f, path, content) ==
    LET p == Components(path)
    IN  [q \in DOMAIN f \cup {p} |-> IF q = p THEN File(content) ELSE f[q]]

\* -------------------------------------------------------------- templates

\* impl Display for FileExtensions
FileExtensionsDisplay(ext) == IF ext = "Cpp" THEN (* cpp *) <<"c","p","p">> ELSE <<"c">>

\* ResolveExtension with the rejecting arm replaced by a default variant
ResolveExtension_DefaultCpp(file_ext) ==
    IF to_ascii_lowercase(file_ext) = <<"c">> THEN "C" ELSE "Cpp"

\* the match on file_ext.to_ascii_lowercase(): the variant, or "invalid"
ResolveExtension(file_ext) ==
    LET t == to_ascii_lowercase(file_ext)
    IN  IF t = (* cpp *) <<"c","p","p">> THEN "Cpp"
        ELSE IF t = <<"c">> THEN "C"
        ELSE "invalid"

\* project_lang of the CMakeLists.txt template
project_lang(ext) == IF ext = "Cpp" THEN (* CXX *) <<"C","X","X">> ELSE <<"C">>

\* project_type of the CMakeLists.txt template
project_type(ext) == IF ext = "Cpp" THEN (* CXX_ *) <<"C","X","X","_">> ELSE <<"C","_">>

\* the text written to .gitignore, line by line
GitignoreContent ==
    << <<>>,
       (* # C / C++ *) <<"#"," ","C"," ","/"," ","C","+","+">>,
       (* *.o *) <<"*",".","o">>,
       (* *.out *) <<"*",".","o","u","t">>,
       (* *.exe *) <<"*",".","e","x","e">>,
       (* *.dll *) <<"*",".","d","l","l">>,
       (* *.so *) <<"*",".","s","o">>,
       (* *.dylib *) <<"*",".","d","y","l","i","b">> >>

\* the text written to CMakeLists.txt, line by line
CMakeListsContent(name, ext, src_dir, include_dir, exec_dir) ==
    LET pt == project_type(ext)
    IN << <<>>,
          (* cmake_minimum_required(VERSION 3.24) *) <<"c","m","a","k","e","_","m","i","n","i","m","u","m","_","r","e","q","u","i","r","e","d","(","V","E","R","S","I","O","N"," ","3",".","2","4",")">>,
          (* project( *) <<"p","r","o","j","e","c","t","(">> \o name \o <<" ">> \o project_lang(ext) \o <<")">>,
          <<>>,
          (* # Set compiler flags *) <<"#"," ","S","e","t"," ","c","o","m","p","i","l","e","r"," ","f","l","a","g","s">>,
          (* set(CMAKE_ *) <<"s","e","t","(","C","M","A","K","E","_">> \o pt \o (* STANDARD 23) *) <<"S","T","A","N","D","A","R","D"," ","2","3",")">>,
          (* set(CMAKE_ *) <<"s","e","t","(","C","M","A","K","E","_">> \o pt \o (* STANDARD_REQUIRED ON) *) <<"S","T","A","N","D","A","R","D","_","R","E","Q","U","I","R","E","D"," ","O","N",")">>,
          (* set(CMAKE_ *) <<"s","e","t","(","C","M","A","K","E","_">> \o pt \o (* EXTENSIONS OFF) *) <<"E","X","T","E","N","S","I","O","N","S"," ","O","F","F",")">>,
          (* set(CMAKE_ *) <<"s","e","t","(","C","M","A","K","E","_">> \o pt \o (* FLAGS "${CMAKE_ *) <<"F","L","A","G","S"," ","\"","$","{","C","M","A","K","E","_">> \o pt
              \o (* FLAGS} -Wall -Werror -Wextra -pedantic -pedantic-errors -g") *) <<"F","L","A","G","S","}"," ","-","W","a","l","l"," ","-","W","e","r","r","o","r"," ","-","W","e","x","t","r","a"," ","-","p","e","d","a","n","t","i","c"," ","-","p","e","d","a","n","t","i","c","-","e","r","r","o","r","s"," ","-","g","\"",")">>,
          <<>>,
          (* # Include project headers *) <<"#"," ","I","n","c","l","u","d","e"," ","p","r","o","j","e","c","t"," ","h","e","a","d","e","r","s">>,
          (* include_directories(./ *) <<"i","n","c","l","u","d","e","_","d","i","r","e","c","t","o","r","i","e","s","(",".","/">> \o include_dir \o <<")">>,
          (* # Define the source files and dependencies for the executable *) <<"#"," ","D","e","f","i","n","e"," ","t","h","e"," ","s","o","u","r","c","e"," ","f","i","l","e","s"," ","a","n","d"," ","d","e","p","e","n","d","e","n","c","i","e","s"," ","f","o","r"," ","t","h","e"," ","e","x","e","c","u","t","a","b","l","e">>,
          (* set(SOURCE_FILES  *) <<"s","e","t","(","S","O","U","R","C","E","_","F","I","L","E","S"," ">> \o src_dir \o (* /main. *) <<"/","m","a","i","n",".">> \o FileExtensionsDisplay(ext) \o <<")">>,
          <<>>,
          (* # Make the project root directory the working directory when we run *) <<"#"," ","M","a","k","e"," ","t","h","e"," ","p","r","o","j","e","c","t"," ","r","o","o","t"," ","d","i","r","e","c","t","o","r","y"," ","t","h","e"," ","w","o","r","k","i","n","g"," ","d","i","r","e","c","t","o","r","y"," ","w","h","e","n"," ","w","e"," ","r","u","n">>,
          (* set(CMAKE_RUNTIME_OUTPUT_DIRECTORY ${CMAKE_CURRENT_SOURCE_DIR}/ *) <<"s","e","t","(","C","M","A","K","E","_","R","U","N","T","I","M","E","_","O","U","T","P","U","T","_","D","I","R","E","C","T","O","R","Y"," ","$","{","C","M","A","K","E","_","C","U","R","R","E","N","T","_","S","O","U","R","C","E","_","D","I","R","}","/">>
              \o exec_dir \o <<")">>,
          (* set(CMAKE_EXPORT_COMPILE_COMMANDS TRUE) *) <<"s","e","t","(","C","M","A","K","E","_","E","X","P","O","R","T","_","C","O","M","P","I","L","E","_","C","O","M","M","A","N","D","S"," ","T","R","U","E",")">>,
          (* add_executable( *) <<"a","d","d","_","e","x","e","c","u","t","a","b","l","e","(">> \o name \o (*  ${SOURCE_FILES}) *) <<" ","$","{","S","O","U","R","C","E","_","F","I","L","E","S","}",")">> >>

\* the text written to main.<ext>, line by line
MainContent(ext) ==
    << <<>>,
       IF ext = "Cpp" THEN (* #include <iostream> *) <<"#","i","n","c","l","u","d","e"," ","<","i","o","s","t","r","e","a","m",">">> ELSE (* #include <stdio.h> *) <<"#","i","n","c","l","u","d","e"," ","<","s","t","d","i","o",".","h",">">>,
       <<>>,
       (* int main() { *) <<"i","n","t"," ","m","a","i","n","(",")"," ","{">>,
       (*      *) <<" "," "," "," ">> \o (IF ext = "Cpp"
                  THEN (* std::cout << "Hello, world!" << std::endl; *) <<"s","t","d",":",":","c","o","u","t"," ","<","<"," ","\"","H","e","l","l","o",","," ","w","o","r","l","d","!","\""," ","<","<"," ","s","t","d",":",":","e","n","d","l",";">>
                  ELSE (* printf("Hello, world!\n"); *) <<"p","r","i","n","t","f","(","\"","H","e","l","l","o",","," ","w","o","r","l","d","!","\\","n","\"",")",";">>),
       (*     return 0; *) <<" "," "," "," ","r","e","t","u","r","n"," ","0",";">>,
       (* }             *) <<"}"," "," "," "," "," "," "," "," "," "," "," "," ">> >>

\* the paths `new` passes to the filesystem
ProjectDirPath(name, dir) == name \o <<"/">> \o dir

GitignorePath(name) == <<".","/">> \o name \o (* /.gitignore *) <<"/",".","g","i","t","i","g","n","o","r","e">>

CMakeListsPath(name) == <<".","/">> \o name \o (* /CMakeLists.txt *) <<"/","C","M","a","k","e","L","i","s","t","s",".","t","x","t">>

\* MainPath with the source directory left out of the path
MainPath_InRoot(name, src_dir, ext) ==
    <<".","/">> \o name \o (* /main. *) <<"/","m","a","i","n",".">> \o FileExtensionsDisplay(ext)

MainPath(name, src_dir, ext) ==
    <<".","/">> \o ProjectDirPath(name, src_dir) \o (* /main. *) <<"/","m","a","i","n",".">> \o FileExtensionsDisplay(ext)

\* ---------------------------------------------------------- command lines

NewCmakeLine(name, build_dir) ==
    (* cmake -S  *) <<"c","m","a","k","e"," ","-","S"," ">> \o (<<".","/">> \o name \o <<"/">>) \o (*  -B  *) <<" ","-","B"," ">>
        \o (<<".","/">> \o name \o <<"/">> \o build_dir \o <<"/">>)

GitInitLine(name) == (* cd ./ *) <<"c","d"," ",".","/">> \o name \o (* / && git init *) <<"/"," ","&","&"," ","g","i","t"," ","i","n","i","t">>

GitAddLine(name) == (* cd ./ *) <<"c","d"," ",".","/">> \o name \o (* / && git add . *) <<"/"," ","&","&"," ","g","i","t"," ","a","d","d"," ",".">>

GitCommitLine(name) == (* cd  *) <<"c","d"," ">> \o name \o (*  && git commit -m "Initial commit" *) <<" ","&","&"," ","g","i","t"," ","c","o","m","m","i","t"," ","-","m"," ","\"","I","n","i","t","i","a","l"," ","c","o","m","m","i","t","\"">>

InitCmakeLine(src_dir, build_dir) ==
    (* cmake -S ./ *) <<"c","m","a","k","e"," ","-","S"," ",".","/">> \o src_dir \o (* / -B ./ *) <<"/"," ","-","B"," ",".","/">> \o build_dir \o <<"/">>

BuildCmakeLine(build_dir) == (* cmake --build ./ *) <<"c","m","a","k","e"," ","-","-","b","u","i","l","d"," ",".","/">> \o build_dir \o <<"/">>

RunBuildLine(build_dir) == (* cmake --build  *) <<"c","m","a","k","e"," ","-","-","b","u","i","l","d"," ">> \o build_dir

BasenameLine == (* basename $(pwd) *) <<"b","a","s","e","n","a","m","e"," ","$","(","p","w","d",")">>

\* what `basename $(pwd)` writes to its standard output: the final segment
\* of the working directory followed by the newline that ends the line
BasenameStdout(dir) ==
    LET segs == Components(dir)
    IN  (IF segs = <<>> THEN <<"/">> ELSE segs[Len(segs)]) \o <<"\n">>

\* exec_name of the run command line (lines 368-379)
ExecName(exec_name, dir) ==
    IF exec_name.some THEN exec_name.val ELSE BasenameStdout(dir)

\* exec_args of the run command line (line 380)
ExecArgs(args) == IF args.some THEN Join(args.val, <<" ">>) ELSE <<>>

RunExecLine(runtime_dir, exec_name, args, dir) ==
    (* cd  *) <<"c","d"," ">> \o runtime_dir \o (*  && ./ *) <<" ","&","&"," ",".","/">> \o ExecName(exec_name, dir)
        \o <<" ">> \o ExecArgs(args)

\* ----------------------------------------------------------------- inputs

\* Option<T>: None, Some(v)
None == [some |-> FALSE, val |-> <<>>]

Some(v) == [some |-> TRUE, val |-> v]

Names == {(* demo *) <<"d","e","m","o">>, (* app *) <<"a","p","p">>}

FileExts == {(* cpp *) <<"c","p","p">>, (* CPP *) <<"C","P","P">>, (* cPp *) <<"c","P","p">>, <<"c">>, <<"C">>, <<"h">>, <<"c","c">>, <<>>}

SrcDirs == {(* src *) <<"s","r","c">>, (* lib/core *) <<"l","i","b","/","c","o","r","e">>}

IncludeDirs == {(* include *) <<"i","n","c","l","u","d","e">>, (* inc *) <<"i","n","c">>}

BuildDirs == {(* build *) <<"b","u","i","l","d">>, (* out *) <<"o","u","t">>}

ExecDirs == {(* bin *) <<"b","i","n">>, (* out *) <<"o","u","t">>}

RootDirs == {<<".">>, (* proj *) <<"p","r","o","j">>}

ExecNames == {None, Some((* demo *) <<"d","e","m","o">>), Some((* tool *) <<"t","o","o","l">>)}

ArgWords == {<<"x">>, <<"-","v">>}

\* every Vec<String> of at most n words
ArgVecs(n) == UNION {[1..k -> ArgWords] : k \in 0..n}

ArgOptions == {None} \cup {Some(v) : v \in ArgVecs(MaxArgs)}

Cwds == {(* /tmp/demo *) <<"/","t","m","p","/","d","e","m","o">>, (* /home/u/app *) <<"/","h","o","m","e","/","u","/","a","p","p">>}

DefaultCwd == (* /tmp/demo *) <<"/","t","m","p","/","d","e","m","o">>

\* the values clap gives the fields a subcommand does not have
Unused ==
    [name |-> <<>>, file_ext |-> <<>>, src_dir |-> <<>>, include_dir |-> <<>>,
     build_dir |-> <<>>, exec_dir |-> <<>>, runtime_dir |-> <<>>,
     exec_name |-> None, args |-> None]

\* Commands::New
NewCommands ==
    {[Unused EXCEPT !.name = n, !.file_ext = e, !.src_dir = s, !.include_dir = i,
                    !.build_dir = b, !.exec_dir = x] @@ [command |-> "new"] :
        n \in Names, e \in FileExts, s \in SrcDirs, i \in IncludeDirs,
        b \in BuildDirs, x \in ExecDirs}

\* Commands::Init
InitCommands ==
    {[Unused EXCEPT !.src_dir = s, !.build_dir = b] @@ [command |-> "init"] :
        s \in RootDirs, b \in BuildDirs}

\* Commands::Build
BuildCommands ==
    {[Unused EXCEPT !.build_dir = b] @@ [command |-> "build"] : b \in BuildDirs}

\* Commands::Run
RunCommands ==
    {[Unused EXCEPT !.build_dir = b, !.runtime_dir = r, !.exec_name = e, !.args = a]
        @@ [command |-> "run"] :
        b \in BuildDirs, r \in ExecDirs, e \in ExecNames, a \in ArgOptions}

EmptyFs == [q \in {} |-> Dir]

\* the filesystems a `new` of project n may start on: nothing at n, a file
\* at n, a directory at n holding a file
StartFs(n) ==
    { EmptyFs,
      [q \in {<<n>>} |-> File(<<(* old *) <<"o","l","d">>>>)],
      [q \in {<<n>>, <<n, (* keep.txt *) <<"k","e","e","p",".","t","x","t">>>>} |->
          IF q = <<n>> THEN Dir ELSE File(<<(* kept *) <<"k","e","p","t">>>>)] }

\* ------------------------------------------------------------ environment

\* how an external command can end: the shell cannot be spawned, the child
\* is killed by a signal (status.code() is None), the child exits with a code
ChildResults ==
    { [kind |-> "spawn_failed", code |-> -1],
      [kind |-> "signalled", code |-> -1],
      [kind |-> "exited", code |-> 0],
      [kind |-> "exited", code |-> 1] }

\* ---------------------------------------------------------------- println

\* a println! of a fixed text
P(text) == [text |-> text, arg |-> <<>>]

\* a println! of a text with one interpolated value
PA(text, arg) == [text |-> text, arg |-> arg]

\* the two println! that relay a finished child's stdout and stderr
Relay == <<P("{out.stdout}"), P("{out.stderr}")>>

\* ------------------------------------------------------------------- Init

Init ==
    /\ opt \in NewCommands \cup InitCommands \cup BuildCommands \cup RunCommands
    /\ cwd \in (IF opt.command = "run" THEN Cwds ELSE {DefaultCwd})
    /\ fs \in (IF opt.command = "new" THEN StartFs(opt.name) ELSE {EmptyFs})
    /\ fs0 = fs
    /\ pc = (CASE opt.command = "new" -> "new_check"
               [] opt.command = "init" -> "init_cmake"
               [] opt.command = "build" -> "build_cmake"
               [] opt.command = "run" -> "run_build")
    /\ extension = "none"
    /\ children = <<>>
    /\ printed = <<>>
    /\ outcome = "running"

\* ---------------------------------------------------------------- helpers

\* `return` from main after printing msgs
Return(msgs) ==
    /\ printed' = printed \o msgs
    /\ outcome' = "returned"
    /\ pc' = "done"

\* a panic (unwrap/expect on an Err or None)
Panic ==
    /\ outcome' = "panicked"
    /\ pc' = "done"

\* std::fs::create_dir_all(path).unwrap(), then msgs printed, then goto next
CreateDirStep(path, msgs, next) ==
    \E envOk \in BOOLEAN :
        IF envOk /\ CanCreateDirAll(fs, path)
        THEN /\ fs' = create_dir_all(fs, path)
             /\ printed' = printed \o msgs
             /\ pc' = next
             /\ UNCHANGED outcome
        ELSE /\ Panic
             /\ UNCHANGED <<fs, printed>>

\* std::fs::write(path, content).unwrap(), then msgs printed, then goto next
WriteStep(path, content, msgs, next) ==
    \E envOk \in BOOLEAN :
        IF envOk /\ CanWrite(fs, path)
        THEN /\ fs' = write(fs, path, content)
             /\ printed' = printed \o msgs
             /\ pc' = next
             /\ UNCHANGED outcome
        ELSE /\ Panic
             /\ UNCHANGED <<fs, printed>>

\* println! of the msgs in before, then
\* Command::new("zsh").arg("-c").arg(line).output().expect(..), the two relay
\* println!, and the `if out.status.code().unwrap() != 0 { println!(errMsg);
\* return; }` that follows; on exit code 0 okMsgs are printed and main goes on
\* at next ("done": main returns)
OutputStep(before, line, errMsg, okMsgs, next) ==
    \E r \in ChildResults :
        IF r.kind = "spawn_failed"
        THEN /\ printed' = printed \o before
             /\ Panic
             /\ UNCHANGED children
        ELSE /\ children' = Append(children, [line |-> line, kind |-> r.kind, code |-> r.code])
             /\ IF r.kind = "signalled"
                THEN /\ printed' = printed \o before \o Relay
                     /\ Panic
                ELSE IF r.code # 0
                THEN Return(before \o Relay \o <<P(errMsg)>>)
                ELSE IF next = "done"
                THEN Return(before \o Relay \o okMsgs)
                ELSE /\ printed' = printed \o before \o Relay \o okMsgs
                     /\ pc' = next
                     /\ UNCHANGED outcome

\* ---------------------------------------------------------- Commands::New

\* NewCheckExists with the `return` of line 124 missing
NewCheckExists_NoReturn ==
    /\ pc = "new_check"
    /\ printed' = (IF PathExists(fs, opt.name)
                   THEN Append(printed, P("Error: Project already exists"))
                   ELSE printed)
    /\ pc' = "new_resolve"
    /\ UNCHANGED <<opt, cwd, fs, fs0, extension, children, outcome>>

\* lines 122-125
NewCheckExists ==
    /\ pc = "new_check"
    /\ IF PathExists(fs, opt.name)
       THEN Return(<<P("Error: Project already exists")>>)
       ELSE /\ pc' = "new_resolve"
            /\ UNCHANGED <<printed, outcome>>
    /\ UNCHANGED <<opt, cwd, fs, fs0, extension, children>>

\* lines 127-143
NewResolveExtension ==
    /\ pc = "new_resolve"
    /\ LET e == ResolveExtension(opt.file_ext)
       IN  IF e = "invalid"
           THEN /\ Return(<<P("Error: Invalid file extension")>>)
                /\ UNCHANGED extension
           ELSE /\ extension' = e
                /\ printed' = printed \o
                       << PA("Creating new project: {}", opt.name),
                          P("    Creating directories..."),
                          PA("        src_dir: {}", opt.src_dir),
                          PA("        include_dir: {}", opt.include_dir),
                          PA("        build_dir: {}", opt.build_dir),
                          PA("        exec_dir: {}", opt.exec_dir) >>
                /\ pc' = "new_mkdir_src"
                /\ UNCHANGED outcome
    /\ UNCHANGED <<opt, cwd, fs, fs0, children>>

\* line 145
NewCreateSrcDir ==
    /\ pc = "new_mkdir_src"
    /\ CreateDirStep(ProjectDirPath(opt.name, opt.src_dir), <<>>, "new_mkdir_include")
    /\ UNCHANGED <<opt, cwd, fs0, extension, children>>

\* line 146
NewCreateIncludeDir ==
    /\ pc = "new_mkdir_include"
    /\ CreateDirStep(ProjectDirPath(opt.name, opt.include_dir), <<>>, "new_mkdir_build")
    /\ UNCHANGED <<opt, cwd, fs0, extension, children>>

\* line 147
NewCreateBuildDir ==
    /\ pc = "new_mkdir_build"
    /\ CreateDirStep(ProjectDirPath(opt.name, opt.build_dir), <<>>, "new_mkdir_exec")
    /\ UNCHANGED <<opt, cwd, fs0, extension, children>>

\* lines 148-152
NewCreateExecDir ==
    /\ pc = "new_mkdir_exec"
    /\ CreateDirStep(ProjectDirPath(opt.name, opt.exec_dir),
                     <<P("    Creating files..."), P("        .gitignore...")>>,
                     "new_write_gitignore")
    /\ UNCHANGED <<opt, cwd, fs0, extension, children>>

\* lines 153-167
NewWriteGitignore ==
    /\ pc = "new_write_gitignore"
    /\ WriteStep(GitignorePath(opt.name), GitignoreContent,
                 <<P("        CMakeLists.txt...")>>, "new_write_cmake")
    /\ UNCHANGED <<opt, cwd, fs0, extension, children>>

\* lines 168-203
NewWriteCMakeLists ==
    /\ pc = "new_write_cmake"
    /\ WriteStep(CMakeListsPath(opt.name),
                 CMakeListsContent(opt.name, extension, opt.src_dir,
                                   opt.include_dir, opt.exec_dir),
                 <<PA("        main.{extension}...", FileExtensionsDisplay(extension))>>,
                 "new_write_main")
    /\ UNCHANGED <<opt, cwd, fs0, extension, children>>

\* lines 204-225
NewWriteMain ==
    /\ pc = "new_write_main"
    /\ WriteStep(MainPath(opt.name, opt.src_dir, extension), MainContent(extension),
                 <<>>, "new_cmake")
    /\ UNCHANGED <<opt, cwd, fs0, extension, children>>

\* NewCmake with the exit-status check of lines 241-244 missing
NewCmake_Unchecked ==
    /\ pc = "new_cmake"
    /\ \E r \in ChildResults :
        /\ r.kind = "exited"
        /\ children' = Append(children, [line |-> NewCmakeLine(opt.name, opt.build_dir),
                                         kind |-> r.kind, code |-> r.code])
        /\ printed' = printed \o <<P("    Initializing cmake...")>> \o Relay
        /\ pc' = "new_git_init"
    /\ UNCHANGED <<opt, cwd, fs, fs0, extension, outcome>>

\* lines 227-244
NewCmake ==
    /\ pc = "new_cmake"
    /\ OutputStep(<<P("    Initializing cmake...")>>,
                  NewCmakeLine(opt.name, opt.build_dir),
                  "Error: Failed to initialize cmake", <<>>, "new_git_init")
    /\ UNCHANGED <<opt, cwd, fs, fs0, extension>>

\* lines 246-259
NewGitInit ==
    /\ pc = "new_git_init"
    /\ OutputStep(<<P("    Initializing git...")>>,
                  GitInitLine(opt.name),
                  "Error: Failed to initialize git", <<>>, "new_git_add")
    /\ UNCHANGED <<opt, cwd, fs, fs0, extension>>

\* lines 261-274
NewGitAdd ==
    /\ pc = "new_git_add"
    /\ OutputStep(<<P("    Adding files to git...")>>,
                  GitAddLine(opt.name),
                  "Error: Failed to add files to git", <<>>, "new_git_commit")
    /\ UNCHANGED <<opt, cwd, fs, fs0, extension>>

\* lines 276-291
NewGitCommit ==
    /\ pc = "new_git_commit"
    /\ OutputStep(<<P("    Committing files to git...")>>,
                  GitCommitLine(opt.name),
                  "Error: Failed to commit files to git",
                  <<P("Project created successfully!")>>, "done")
    /\ UNCHANGED <<opt, cwd, fs, fs0, extension>>

\* --------------------------------------------------------- Commands::Init

\* lines 294-310
InitCmake ==
    /\ pc = "init_cmake"
    /\ OutputStep(<<P("Initializing project...")>>,
                  InitCmakeLine(opt.src_dir, opt.build_dir),
                  "Error: Failed to initialize cmake",
                  <<P("Project initialized successfully!")>>, "done")
    /\ UNCHANGED <<opt, cwd, fs, fs0, extension>>

\* -------------------------------------------------------- Commands::Build

\* lines 319-335
BuildCmake ==
    /\ pc = "build_cmake"
    /\ OutputStep(<<P("Building project...")>>,
                  BuildCmakeLine(opt.build_dir),
                  "Error: Failed to build project",
                  <<P("Project built successfully!")>>, "done")
    /\ UNCHANGED <<opt, cwd, fs, fs0, extension>>

\* ---------------------------------------------------------- Commands::Run

\* RunBuild with the exit-status check of lines 356-359 missing
RunBuild_Unchecked ==
    /\ pc = "run_build"
    /\ \E r \in ChildResults :
        /\ r.kind = "exited"
        /\ children' = Append(children, [line |-> RunBuildLine(opt.build_dir),
                                         kind |-> r.kind, code |-> r.code])
        /\ printed' = printed \o <<P("Building project...")>> \o Relay
        /\ pc' = "run_spawn"
    /\ UNCHANGED <<opt, cwd, fs, fs0, extension, outcome>>

\* lines 345-359
RunBuild ==
    /\ pc = "run_build"
    /\ OutputStep(<<P("Building project...")>>,
                  RunBuildLine(opt.build_dir),
                  "Error: Failed to build project", <<>>, "run_spawn")
    /\ UNCHANGED <<opt, cwd, fs, fs0, extension>>

\* lines 361-383: the command line is formatted (running `basename $(pwd)`
\* when no exec_name was given) and the shell is spawned with inherited
\* standard streams
RunSpawnExec ==
    /\ pc = "run_spawn"
    /\ printed' = Append(printed, P("Running project..."))
    /\ \E basenameSpawned \in BOOLEAN, execSpawned \in BOOLEAN :
        LET named == opt.exec_name.some
            helper == IF named THEN <<>>
                      ELSE <<[line |-> BasenameLine, kind |-> "exited", code |-> 0]>>
            line == RunExecLine(opt.runtime_dir, opt.exec_name, opt.args, cwd)
        IN  IF ~named /\ ~basenameSpawned
            THEN /\ Panic
                 /\ UNCHANGED children
            ELSE IF ~execSpawned
            THEN /\ Panic
                 /\ children' = children \o helper
            ELSE /\ children' = children \o helper
                        \o <<[line |-> line, kind |-> "running", code |-> -1]>>
                 /\ pc' = "run_wait"
                 /\ UNCHANGED outcome
    /\ UNCHANGED <<opt, cwd, fs, fs0, extension>>

\* lines 384-389: wait_with_output, the two relay println!, end of main
RunWaitExec ==
    /\ pc = "run_wait"
    /\ \E waitOk \in BOOLEAN, r \in ChildResults :
        /\ r.kind # "spawn_failed"
        /\ children' = [children EXCEPT ![Len(children)] =
                            [line |-> @.line, kind |-> r.kind, code |-> r.code]]
        /\ IF waitOk THEN Return(Relay)
           ELSE /\ Panic
                /\ UNCHANGED printed
    /\ UNCHANGED <<opt, cwd, fs, fs0, extension>>

\* ------------------------------------------------------------------- Next

Next ==
    \/ NewCheckExists
    \/ NewResolveExtension
    \/ NewCreateSrcDir
    \/ NewCreateIncludeDir
    \/ NewCreateBuildDir
    \/ NewCreateExecDir
    \/ NewWriteGitignore
    \/ NewWriteCMakeLists
    \/ NewWriteMain
    \/ NewCmake
    \/ NewGitInit
    \/ NewGitAdd
    \/ NewGitCommit
    \/ InitCmake
    \/ BuildCmake
    \/ RunBuild
    \/ RunSpawnExec
    \/ RunWaitExec

\* the process exit status: main returned (0) or panicked (101)
ExitStatus == IF outcome = "panicked" THEN 101 ELSE 0

Spec == Init /\ [][Next]_vars

\* ----------------------------------------------------------------- claims

\* whether text t occurs in text s at position i
OccursAt(s, t, i) ==
    /\ i + Len(t) - 1 <= Len(s)
    /\ \A k \in 1..Len(t) : s[i + k - 1] = t[k]

\* whether text t is a substring of text s
Contains(s, t) == \E i \in 1..(Len(s) + 1) : OccursAt(s, t, i)

StartsWith(s, t) == OccursAt(s, t, 1)

EndsWith(s, t) == Len(t) <= Len(s) /\ OccursAt(s, t, Len(s) - Len(t) + 1)

\* whether some line of a file's content contains text t
ContentContains(content, t) == \E i \in 1..Len(content) : Contains(content[i], t)

\* whether a file's content has exactly the line t
HasLine(content, t) == \E i \in 1..Len(content) : content[i] = t

\* the println! texts that report an error
ErrorMessages ==
    { "Error: Project already exists",
      "Error: Invalid file extension",
      "Error: Failed to initialize cmake",
      "Error: Failed to initialize git",
      "Error: Failed to add files to git",
      "Error: Failed to commit files to git",
      "Error: Failed to build project" }

ErrorPrinted == \E i \in 1..Len(printed) : printed[i].text \in ErrorMessages

Printed(text) == \E i \in 1..Len(printed) : printed[i].text = text

ExitedNonZero(c) == c.kind = "exited" /\ c.code # 0

ExitedZero(c) == c.kind = "exited" /\ c.code = 0

IsNew == opt.command = "new"

IsRun == opt.command = "run"

\* the --file-ext token lowercases to neither "cpp" nor "c"
BadToken == to_ascii_lowercase(opt.file_ext) \notin {(* cpp *) <<"c","p","p">>, <<"c">>}

\* C1: when an entry already exists at --name, `new` ends with the
\* project-already-exists error and the filesystem stays exactly as it was:
\* nothing is created or written and no external command is invoked.
C1_ExistingProjectUntouched ==
    (IsNew /\ <<opt.name>> \in DOMAIN fs0) =>
        /\ fs = fs0
        /\ children = <<>>
        /\ pc \in {"new_check", "done"}
        /\ pc = "done" =>
              /\ outcome = "returned"
              /\ printed = <<P("Error: Project already exists")>>

C1_Witness ==
    /\ IsNew
    /\ <<opt.name>> \in DOMAIN fs0
    /\ fs0[<<opt.name>>].kind = "dir"
    /\ pc = "done"

\* C2 as stated: every bad --file-ext token makes `new` end with the
\* invalid-extension error, with the filesystem untouched and no external
\* command invoked.
C2_BadTokenAlwaysRejected ==
    (IsNew /\ BadToken /\ pc = "done") =>
        /\ printed = <<P("Error: Invalid file extension")>>
        /\ fs = fs0
        /\ children = <<>>

\* C2 (amended): for a bad --file-ext token `new` never touches the
\* filesystem and never invokes an external command; it ends with the
\* invalid-extension error when nothing exists at --name, and with the
\* project-already-exists error (the token is never examined) when an entry
\* does.
C2_BadTokenLeavesFsUntouched ==
    (IsNew /\ BadToken) =>
        /\ fs = fs0
        /\ children = <<>>
        /\ pc \in {"new_check", "new_resolve", "done"}
        /\ pc = "done" =>
              /\ outcome = "returned"
              /\ printed = IF <<opt.name>> \in DOMAIN fs0
                           THEN <<P("Error: Project already exists")>>
                           ELSE <<P("Error: Invalid file extension")>>

C2_Witness ==
    /\ IsNew
    /\ BadToken
    /\ <<opt.name>> \notin DOMAIN fs0
    /\ pc = "done"
    /\ Printed("Error: Invalid file extension")

IsConfigure(c) == StartsWith(c.line, (* cmake -S  *) <<"c","m","a","k","e"," ","-","S"," ">>)

IsGitInit(c) == EndsWith(c.line, (* && git init *) <<"&","&"," ","g","i","t"," ","i","n","i","t">>)

IsGitAdd(c) == EndsWith(c.line, (* && git add . *) <<"&","&"," ","g","i","t"," ","a","d","d"," ",".">>)

IsGitCommit(c) == Contains(c.line, (* && git commit  *) <<"&","&"," ","g","i","t"," ","c","o","m","m","i","t"," ">>)

\* C3: in `new` the external steps run in the order configure, git init,
\* git add, git commit, each only after every earlier one exited with 0; a
\* configure step that exits non-zero is the last step invoked and the
\* success message is not printed.
C3_NewStepsInOrder ==
    IsNew =>
        /\ Len(children) <= 4
        /\ \A i \in 1..Len(children) :
              /\ i = 1 => IsConfigure(children[i])
              /\ i = 2 => IsGitInit(children[i])
              /\ i = 3 => IsGitAdd(children[i])
              /\ i = 4 => IsGitCommit(children[i])
              /\ \A j \in 1..(i - 1) : ExitedZero(children[j])
        /\ Printed("Project created successfully!") =>
              /\ Len(children) = 4
              /\ \A i \in 1..4 : ExitedZero(children[i])
        /\ (children # <<>> /\ ExitedNonZero(children[1])) =>
              /\ Len(children) = 1
              /\ pc = "done"

C3_Witness ==
    /\ IsNew
    /\ Len(children) = 1
    /\ IsConfigure(children[1])
    /\ ExitedNonZero(children[1])
    /\ pc = "done"
    /\ Printed("Error: Failed to initialize cmake")

IsBuild(c) == StartsWith(c.line, (* cmake --build  *) <<"c","m","a","k","e"," ","-","-","b","u","i","l","d"," ">>)

IsExec(c) == StartsWith(c.line, (* cd  *) <<"c","d"," ">>)

\* C4: in `run` the executable is invoked only after the build step was
\* spawned, awaited and exited with 0; when the build step exits non-zero
\* `run` ends without invoking anything else.
C4_RunExecAfterBuild ==
    IsRun =>
        /\ \A i \in 1..Len(children) :
              IsExec(children[i]) =>
                  /\ i > 1
                  /\ IsBuild(children[1])
                  /\ ExitedZero(children[1])
        /\ (children # <<>> /\ ~ExitedZero(children[1])) =>
              /\ Len(children) = 1
              /\ pc = "done"
              /\ ~Printed("Running project...")
        /\ pc \in {"run_spawn", "run_wait"} =>
              (children # <<>> /\ IsBuild(children[1]) /\ ExitedZero(children[1]))

C4_Witness ==
    /\ IsRun
    /\ Len(children) >= 2
    /\ IsBuild(children[1])
    /\ ExitedZero(children[1])
    /\ IsExec(children[Len(children)])
    /\ children[Len(children)].kind = "exited"
    /\ pc = "done"

\* some error happened in this invocation: a panic, a printed error, or an
\* external step that exited non-zero
ErrorOccurred ==
    \/ outcome = "panicked"
    \/ ErrorPrinted
    \/ \E i \in 1..Len(children) : ExitedNonZero(children[i])

\* C5: every error ends the invocation with a non-zero process exit status.
C5_ErrorsExitNonZero ==
    (pc = "done" /\ ErrorOccurred) => ExitStatus # 0

\* C6: every external command that exits non-zero has an error message
\* reported for it.
C6_NonZeroExitReported ==
    pc = "done" =>
        \A i \in 1..Len(children) : ExitedNonZero(children[i]) => ErrorPrinted

\* the final path segment of the working directory
LastSegment(dir) == LET segs == SplitOn(dir, "/", <<>>) IN segs[Len(segs)]

\* C7: the command line `run` invokes is `cd <runtime-dir> && ./<exec-name>
\* <args>` with the arguments on the same line, where <exec-name> is
\* --exec-name when given and otherwise exactly the final segment of the
\* working directory.
C7_RunCommandLine ==
    IsRun =>
        \A i \in 1..Len(children) :
            IsExec(children[i]) =>
                children[i].line =
                    (* cd  *) <<"c","d"," ">> \o opt.runtime_dir \o (*  && ./ *) <<" ","&","&"," ",".","/">>
                    \o (IF opt.exec_name.some THEN opt.exec_name.val ELSE LastSegment(cwd))
                    \o <<" ">> \o (IF opt.args.some THEN Join(opt.args.val, <<" ">>) ELSE <<>>)

\* the file this run wrote at project-relative path p, if it has
Wrote(p) ==
    /\ <<opt.name>> \o p \in DOMAIN fs
    /\ <<opt.name>> \o p \notin DOMAIN fs0
    /\ fs[<<opt.name>> \o p].kind = "file"

ContentAt(p) == fs[<<opt.name>> \o p].content

\* C8: the build descriptor declares the standard of the variant:
\* CMAKE_C_STANDARD 17 for "c" (whose starter file is main.c with
\* #include <stdio.h> and a printf greeting), CMAKE_CXX_STANDARD 23 for "cpp".
C8_StandardOfVariant ==
    (IsNew /\ pc = "new_cmake") =>
        /\ Wrote(<<(* CMakeLists.txt *) <<"C","M","a","k","e","L","i","s","t","s",".","t","x","t">>>>)
        /\ extension = "Cpp" =>
              ContentContains(ContentAt(<<(* CMakeLists.txt *) <<"C","M","a","k","e","L","i","s","t","s",".","t","x","t">>>>), (* CMAKE_CXX_STANDARD 23 *) <<"C","M","A","K","E","_","C","X","X","_","S","T","A","N","D","A","R","D"," ","2","3">>)
        /\ extension = "C" =>
              /\ ContentContains(ContentAt(<<(* CMakeLists.txt *) <<"C","M","a","k","e","L","i","s","t","s",".","t","x","t">>>>), (* CMAKE_C_STANDARD 17 *) <<"C","M","A","K","E","_","C","_","S","T","A","N","D","A","R","D"," ","1","7">>)
              /\ Wrote(Components(opt.src_dir) \o <<(* main.c *) <<"m","a","i","n",".","c">>>>)
              /\ HasLine(ContentAt(Components(opt.src_dir) \o <<(* main.c *) <<"m","a","i","n",".","c">>>>),
                         (* #include <stdio.h> *) <<"#","i","n","c","l","u","d","e"," ","<","s","t","d","i","o",".","h",">">>)
              /\ ContentContains(ContentAt(Components(opt.src_dir) \o <<(* main.c *) <<"m","a","i","n",".","c">>>>),
                                 (* printf( *) <<"p","r","i","n","t","f","(">>)

HasDefaultDirs ==
    /\ opt.src_dir = (* src *) <<"s","r","c">>
    /\ opt.include_dir = (* include *) <<"i","n","c","l","u","d","e">>
    /\ opt.build_dir = (* build *) <<"b","u","i","l","d">>
    /\ opt.exec_dir = (* bin *) <<"b","i","n">>

\* the four directories of a default layout (and the project root they are in)
DefaultDirs ==
    { <<opt.name>>, <<opt.name, (* src *) <<"s","r","c">>>>, <<opt.name, (* include *) <<"i","n","c","l","u","d","e">>>>,
      <<opt.name, (* build *) <<"b","u","i","l","d">>>>, <<opt.name, (* bin *) <<"b","i","n">>>> }

\* the three files of a default layout
DefaultFiles ==
    { <<opt.name, (* .gitignore *) <<".","g","i","t","i","g","n","o","r","e">>>>, <<opt.name, (* CMakeLists.txt *) <<"C","M","a","k","e","L","i","s","t","s",".","t","x","t">>>>,
      <<opt.name, (* src *) <<"s","r","c">>, (* main. *) <<"m","a","i","n",".">> \o to_ascii_lowercase(opt.file_ext)>> }

\* C9: from a filesystem without the project path, `new` with a supported
\* extension and the default directory options has created, by the time any
\* external command is invoked, exactly the directories src, include, build
\* and bin and the files .gitignore, CMakeLists.txt and src/main.<ext> under
\* the project root and nothing else, and all four directories exist before
\* any file is written.
C9_DefaultLayoutExact ==
    (IsNew /\ HasDefaultDirs /\ fs0 = EmptyFs) =>
        /\ (pc = "new_cmake" \/ children # <<>>) =>
              /\ DOMAIN fs = DefaultDirs \cup DefaultFiles
              /\ \A p \in DefaultDirs : fs[p].kind = "dir"
              /\ \A p \in DefaultFiles : fs[p].kind = "file"
        /\ pc \in {"new_check", "new_resolve", "new_mkdir_src", "new_mkdir_include",
                   "new_mkdir_build", "new_mkdir_exec", "new_write_gitignore",
                   "new_write_cmake", "new_write_main"} => children = <<>>
        /\ (\E p \in DOMAIN fs : fs[p].kind = "file") =>
              \A p \in DefaultDirs : p \in DOMAIN fs /\ fs[p].kind = "dir"
        /\ DOMAIN fs \subseteq DefaultDirs \cup DefaultFiles

C9_Witness ==
    /\ IsNew
    /\ HasDefaultDirs
    /\ fs0 = EmptyFs
    /\ pc = "new_cmake"
    /\ children = <<>>
    /\ DOMAIN fs = DefaultDirs \cup DefaultFiles

\* whether a .gitignore line excludes the directory dir
ExcludesDir(line, dir) ==
    line \in {dir, dir \o <<"/">>, <<"/">> \o dir, <<"/">> \o dir \o <<"/">>}

\* C10: the .gitignore written by `new` has the build directory name and the
\* executable-output directory name among its excluded entries.
C10_GitignoreNamesDirs ==
    (IsNew /\ Wrote(<<(* .gitignore *) <<".","g","i","t","i","g","n","o","r","e">>>>)) =>
        /\ \E i \in 1..Len(ContentAt(<<(* .gitignore *) <<".","g","i","t","i","g","n","o","r","e">>>>)) :
              ExcludesDir(ContentAt(<<(* .gitignore *) <<".","g","i","t","i","g","n","o","r","e">>>>)[i], opt.build_dir)
        /\ \E i \in 1..Len(ContentAt(<<(* .gitignore *) <<".","g","i","t","i","g","n","o","r","e">>>>)) :
              ExcludesDir(ContentAt(<<(* .gitignore *) <<".","g","i","t","i","g","n","o","r","e">>>>)[i], opt.exec_dir)

====
